---- MODULE Spec2Model ----
(***************************************************************************)
(* TuneDisplay: the Last.fm now-playing client, the monitoring loop that   *)
(* detects track changes, and the Tk display surface it drives.            *)
(*                                                                         *)
(* Two copies of the program live in the repository: the packaged one      *)
(* (src/src/tunedisplay/) and an older top-level one (src/tunedisplay.py,  *)
(* src/gui.py).  The state machine below is the packaged one; the older    *)
(* copy's client and fit computation are modelled beside it, their names   *)
(* ending in _v0.                                                          *)
(***************************************************************************)
EXTENDS Integers, Sequences, FiniteSets, TLC

VARIABLES
    \* ---- LastFmClient, one call of get_now_playing
    cpc,                \* "idle" | "called" | "returned"
    resp,               \* the remote outcome of the call
    result,             \* what get_now_playing did with it
    result_v0,          \* what the older copy's get_now_playing does with it
    \* ---- run_monitoring_loop (the daemon thread)
    mpc,                \* the thread's position
    previous_track,
    now_playing_track,
    args,               \* the parsed command line: no_art, interval
    pending,            \* callbacks the running update_song_info has yet to schedule
    cycle,              \* what the current poll cycle has done so far
    slept,              \* seconds slept since the last poll cycle ended
    hist,               \* the completed poll cycles, oldest first
    \* ---- TuneDisplayGUI and the main thread
    gpc,                \* the main thread's position
    running,            \* display.running
    afterq,             \* callbacks scheduled with root.after(0, ...)
    resize_timers,      \* callbacks scheduled with root.after(100, ...)
    title_label,
    artist_label,
    album_label,
    art_label,          \* the image the art label is configured to show
    current_image,
    current_image_path,
    \* ---- the filesystem
    file,               \* the transient art file
    \* ---- the fit computation of update_album_art, one run of it
    fpc,                \* "idle" | "called" | "returned"
    img_size,           \* img.size of the decoded file: <<width, height>>
    winfo,              \* what Tk reports: the window's height, the art
                        \* label's width and height
    new_size,           \* <<new_width, new_height>>
    new_size_v0,        \* the same of the older copy
    \* ---- the Tk root window and calls of TuneDisplayGUI.close()
    root,               \* "alive" | "destroyed"
    close_calls,        \* calls of close() made so far
    close_raised        \* whether a call of close() raised

client_vars == <<cpc, resp, result, result_v0>>
loop_vars == <<mpc, previous_track, now_playing_track, args, pending, cycle, slept, hist>>
render_vars == <<title_label, artist_label, album_label, art_label,
                 current_image, current_image_path>>
gui_vars == <<gpc, running, afterq, resize_timers>>
fit_vars == <<fpc, img_size, winfo, new_size, new_size_v0>>
close_vars == <<root, close_calls, close_raised>>
vars == <<client_vars, loop_vars, render_vars, gui_vars, file, fit_vars, close_vars>>

----------------------------------------------------------------------------
(* Bounds of the model *)

\* longest image list of a remote entry
MaxImages == 3
\* most callbacks waiting in the Tk event queue at once
MaxQueue == 2
\* most resize re-renders pending at once
MaxResize == 2
\* largest --interval tried
MaxInterval == 2
\* most poll cycles of a recorded run
MaxCycles == 5
\* largest of the small image and widget sizes tried
MaxSide == 4
\* most calls of close() tried
MaxCloses == 2

----------------------------------------------------------------------------
(* JSON values of the remote response, as far as the client looks at them *)

\* a key that is not there (dict.get gives None)
Missing == "<missing>"
\* a JSON string where the client expects an object or a list
Str == "<str>"
\* a JSON number other than 0 where the client expects text
Num == "<num>"

\* art URLs as the service may send them; the second differs from the first
\* only in the case of scheme and host
U1 == "http://img.example/a.png"
U1Upper == "HTTP://IMG.EXAMPLE/a.png"
U2 == "http://img.example/b.png"
BadUrl == "not a url"
Invalid == "<invalid>"

\* Python truthiness of a value read from the response
Truthy(v) == v \notin {Missing, ""}

\* pydantic's str field: a str instance, anything else is a ValidationError
IsStr(v) == v \notin {Missing, Num}

\* pydantic's HttpUrl: the parsed URL, scheme and host lower-cased
HttpUrl(raw) ==
    CASE raw = U1Upper -> U1
      [] raw \in {U1, U2} -> raw
      [] OTHER -> Invalid

----------------------------------------------------------------------------
(* Track *)

\* absent (Python's None) where a Track may stand
Absent == [kind |-> "none"]

TrackFieldsNoArt == {"artist", "name", "album"}

\* the fields of the model, which pydantic's __eq__ compares
TrackFields == {"artist", "name", "album", "art_url"}

\* Track(**track_info) after validation
Track(artist, name, album, art_url) ==
    [kind |-> "track", artist |-> artist, name |-> name, album |-> album,
     art_url |-> art_url]

IsTrack(t) == t.kind = "track"

\* t1 is t2: identity in place of ==; two Tracks built by two polls are two
\* objects
TrackIs(t1, t2) == ~IsTrack(t1) /\ ~IsTrack(t2)

\* an equality that leaves art_url out
TrackEqNoArt(t1, t2) ==
    IF IsTrack(t1) /\ IsTrack(t2)
    THEN \A f \in TrackFieldsNoArt : t1[f] = t2[f]
    ELSE ~IsTrack(t1) /\ ~IsTrack(t2)

\* t1 == t2 for two values that are each a Track or None
TrackEq(t1, t2) ==
    IF IsTrack(t1) /\ IsTrack(t2)
    THEN \A f \in TrackFields : t1[f] = t2[f]
    ELSE ~IsTrack(t1) /\ ~IsTrack(t2)

----------------------------------------------------------------------------
(* What a call gives back: a value, or an exception leaving it *)

Return(v) == [out |-> "return", val |-> v]
Raise(e) == [out |-> "raise", exc |-> e]
Returned(r) == r.out = "return"
Raised(r) == r.out = "raise"

----------------------------------------------------------------------------
(* The remote outcome of one user.getrecenttracks request.                 *)
(*   transport     what requests.get / raise_for_status / response.json do *)
(*   body          the top-level JSON value                                 *)
(*   recenttracks  data["recenttracks"]: Missing, Str, or "dict"          *)
(*   track         recenttracks["track"]: Missing, "empty", "dict" (one   *)
(*                 object instead of a list), Str, Num, or "list"          *)
(*   entry         track[0]: Str or "dict"                                 *)
(*   attr          entry["@attr"]: Missing, Str, "false", "true"           *)
(*   artist, album entry[...]: Missing, Str, or the value of its "#text"   *)
(*   name          entry["name"]                                           *)
(*   image         entry["image"]: the list (<<>>: no list or empty), each *)
(*                 element [size, text], size = Str for a non-object       *)

Resp(transport, body, recenttracks, track, entry, attr, artist, name, album, image) ==
    [transport |-> transport, body |-> body, recenttracks |-> recenttracks,
     track |-> track, entry |-> entry, attr |-> attr, artist |-> artist,
     name |-> name, album |-> album, image |-> image]

Img(size, text) == [size |-> size, text |-> text]

\* a response whose single entry is an object
EntryResp(attr, artist, name, album, image) ==
    Resp("ok", "dict", "dict", "list", "dict", attr, artist, name, album, image)

\* a response that ends before any entry is read
ShapeResp(transport, body, recenttracks, track, entry) ==
    Resp(transport, body, recenttracks, track, entry, Missing, Missing, Missing,
         Missing, <<>>)

ImageTexts == {Missing, "", U1, U1Upper, U2, BadUrl}

Images == {Img(s, t) : s \in {"small", "extralarge"}, t \in ImageTexts}
              \cup {Img(Str, Str)}

\* the image lists of up to n elements
RECURSIVE ImageListsUpTo(_)
ImageListsUpTo(n) ==
    IF n = 0 THEN {<<>>}
    ELSE LET shorter == ImageListsUpTo(n - 1)
         IN shorter \cup {Append(l, i) : l \in {s \in shorter : Len(s) = n - 1},
                                         i \in Images}

ImageLists == ImageListsUpTo(MaxImages)

TransportFailures ==
    {ShapeResp(t, "empty", Missing, Missing, Str) :
        t \in {"conn_error", "http_error", "bad_json"}}

BodyShapes ==
    {ShapeResp("ok", b, Missing, Missing, Str) :
        b \in {"scalar", "string", "list", "error", "empty"}}

RecentShapes ==
    {ShapeResp("ok", "dict", rt, Missing, Str) : rt \in {Missing, Str}}

TrackShapes ==
    {ShapeResp("ok", "dict", "dict", t, Str) :
        t \in {Missing, "empty", "dict", Str, Num}}

EntryShapes == {ShapeResp("ok", "dict", "dict", "list", Str)}

\* entries varying the marker and the three text fields
FieldEntries ==
    {EntryResp(at, ar, nm, al, im) :
        at \in {Missing, Str, "false", "true"},
        ar \in {Missing, Str, "", Num, "a1", "a2"},
        nm \in {Missing, "", Num, "n1", "n2"},
        al \in {Missing, Str, "", Num, "b1", "b2"},
        im \in {<<>>, <<Img("extralarge", U1)>>, <<Img("extralarge", U2)>>,
                <<Img("extralarge", BadUrl)>>}}

\* well-formed now-playing entries varying the image list
ImageEntries ==
    {EntryResp("true", "a1", "n1", "b1", im) : im \in ImageLists}

Responses ==
    TransportFailures \cup BodyShapes \cup RecentShapes \cup TrackShapes
        \cup EntryShapes \cup FieldEntries \cup ImageEntries

----------------------------------------------------------------------------
(* LastFmClient, packaged copy *)

\* the data _make_request hands back: the body, or None
NoData == "<None>"

_make_request(r) ==
    IF r.transport # "ok" THEN Return(NoData)          \* RequestException, JSONDecodeError
    ELSE IF r.body = "scalar" THEN Raise("TypeError")  \* "error" in data
    ELSE IF r.body = "error" THEN Return(NoData)
    ELSE Return(r.body)

\* the for loop of _extract_image_url from element i on; art is art_url so far
RECURSIVE ExtraLargeScan(_, _, _)
ExtraLargeScan(image_list, i, art) ==
    IF i > Len(image_list) THEN art
    ELSE LET img == image_list[i]
         IN IF img.size = "extralarge"
            THEN IF Truthy(img.text) THEN img.text
                 ELSE ExtraLargeScan(image_list, i + 1, img.text)
            ELSE ExtraLargeScan(image_list, i + 1, art)

_extract_image_url(image_list) ==
    IF image_list = <<>> THEN Missing
    ELSE LET scanned == ExtraLargeScan(image_list, 1, Missing)
             last_image == image_list[Len(image_list)]
             art_url == IF Truthy(scanned) THEN scanned
                        ELSE IF last_image.size # Str THEN last_image.text
                        ELSE scanned
         IN IF Truthy(art_url) THEN art_url ELSE Missing

\* Track(**track_info): pydantic validates the four fields
NewTrack(artist, name, album, art_url) ==
    IF ~(IsStr(artist) /\ IsStr(name) /\ IsStr(album))
    THEN Raise("ValidationError")
    ELSE IF art_url = Missing THEN Return(Track(artist, name, album, Missing))
    ELSE IF HttpUrl(art_url) = Invalid THEN Raise("ValidationError")
    ELSE Return(Track(artist, name, album, HttpUrl(art_url)))

\* except (AttributeError, TypeError, KeyError) of _create_track
CreateTrackCatches(r) ==
    IF Raised(r) /\ r.exc \in {"AttributeError", "TypeError", "KeyError"}
    THEN Return(Absent) ELSE r

_create_track(r) ==
    CreateTrackCatches(
        IF r.artist = Str \/ r.album = Str THEN Raise("AttributeError")
        ELSE IF ~(Truthy(r.artist) /\ Truthy(r.name) /\ Truthy(r.album))
        THEN Return(Absent)
        ELSE NewTrack(r.artist, r.name, r.album, _extract_image_url(r.image)))

\* except (KeyError, IndexError, TypeError) of get_now_playing
GetNowPlayingCatches(r) ==
    IF Raised(r) /\ r.exc \in {"KeyError", "IndexError", "TypeError"}
    THEN Return(Absent) ELSE r

\* the try block of get_now_playing
ParseRecentTracks(r) ==
    IF r.body \in {"string", "list"} THEN Raise("AttributeError")  \* data.get
    ELSE IF r.recenttracks = Str THEN Raise("AttributeError")      \* recent_tracks.get
    ELSE IF r.recenttracks = Missing \/ r.track \in {Missing, "empty"}
    THEN Return(Absent)
    ELSE IF r.track = "dict" THEN Raise("KeyError")                \* track_list[0]
    ELSE IF r.track = Num THEN Raise("TypeError")
    ELSE IF r.track = Str \/ r.entry = Str THEN Raise("AttributeError")
    ELSE IF r.attr # "true" THEN Return(Absent)
    ELSE _create_track(r)

get_now_playing(r) ==
    LET data == _make_request(r)
    IN IF Raised(data) THEN data
       ELSE IF data.val \in {NoData, "empty"} THEN Return(Absent)
       ELSE GetNowPlayingCatches(ParseRecentTracks(r))

----------------------------------------------------------------------------
(* LastFmClient, older copy (src/tunedisplay.py) *)

\* the image loop of the older get_now_playing: the first extralarge element
\* ends it, whatever its text
RECURSIVE FirstExtraLarge_v0(_, _)
FirstExtraLarge_v0(image_list, i) ==
    IF i > Len(image_list) THEN Return(Missing)
    ELSE LET img == image_list[i]
         IN IF img.size = Str THEN Raise("AttributeError")     \* img.get
            ELSE IF img.size = "extralarge" THEN Return(img.text)
            ELSE FirstExtraLarge_v0(image_list, i + 1)

ArtUrl_v0(image_list) ==
    IF image_list = <<>> THEN Return(Missing)
    ELSE LET first == FirstExtraLarge_v0(image_list, 1)
             last_image == image_list[Len(image_list)]
         IN IF Raised(first) THEN first
            ELSE IF Truthy(first.val) THEN first
            ELSE IF last_image.size = Str THEN Raise("AttributeError")
            ELSE Return(IF Truthy(last_image.text) THEN last_image.text
                        ELSE Missing)

\* except (KeyError, IndexError) and except ValidationError
GetNowPlayingCatches_v0(r) ==
    IF Raised(r) /\ r.exc \in {"KeyError", "IndexError", "ValidationError"}
    THEN Return(Absent) ELSE r

ParseRecentTracks_v0(r) ==
    IF r.body \in {"string", "list"} THEN Return(Absent)   \* "recenttracks" in data
    ELSE IF r.recenttracks \in {Missing, Str} THEN Return(Absent)
    ELSE IF r.track \in {Missing, "empty"} THEN Return(Absent)
    ELSE IF r.track = "dict" THEN Raise("KeyError")         \* track[0]
    ELSE IF r.track = Num THEN Raise("TypeError")
    ELSE IF r.track = Str \/ r.entry = Str THEN Return(Absent)  \* "@attr" in a str
    ELSE IF r.attr = Missing THEN Return(Absent)
    ELSE IF r.attr = Str THEN Raise("AttributeError")       \* a str has no .get
    ELSE IF r.attr # "true" THEN Return(Absent)
    ELSE IF r.artist = Missing THEN Raise("KeyError")
    ELSE IF r.artist = Str THEN Raise("TypeError")          \* "..."["#text"]
    ELSE IF r.name = Missing THEN Raise("KeyError")
    ELSE IF r.album = Missing THEN Raise("KeyError")
    ELSE IF r.album = Str THEN Raise("TypeError")
    ELSE LET art == ArtUrl_v0(r.image)
         IN IF Raised(art) THEN art
            ELSE NewTrack(r.artist, r.name, r.album, art.val)

get_now_playing_v0(r) ==
    LET data == _make_request(r)
    IN IF Raised(data) THEN data
       ELSE IF data.val \in {NoData, "empty"} THEN Return(Absent)
       ELSE GetNowPlayingCatches_v0(ParseRecentTracks_v0(r))

\* every Track either copy can return
ClientTracks ==
    {res.val : res \in {x \in {get_now_playing(r) : r \in Responses} \cup
                                {get_now_playing_v0(r) : r \in Responses} :
                           Returned(x) /\ IsTrack(x.val)}}

----------------------------------------------------------------------------
(* The display surface's state *)

\* the image file the monitoring loop is given (image_filename)
ArtPath == "lastfm_nowplaying_art.png"
NoPath == "<None>"

\* no PhotoImage: current_image = None, or the label's image = ''
NoImage == 0

\* PhotoImage objects are told apart by a number; a new one differs from
\* every one still referenced
FreshImage == CHOOSE i \in 1..3 : i \notin {art_label, current_image}

NotPlaying == "Currently not playing anything"

\* root.after(0, cb) issued from outside the main thread reaches the event
\* queue only while the main thread is in mainloop; otherwise Tk raises
Dispatching == gpc = "mainloop"

CanSchedule == Dispatching /\ Len(afterq) < MaxQueue

\* callbacks that show the three fields as given, without a placeholder
SongInfoVerbatim(title, artist, album) ==
    << <<"title", title>>, <<"artist", artist>>, <<"album", album>> >>

\* the callbacks update_song_info schedules, in order
SongInfoCallbacks(title, artist, album) ==
    IF title = "" /\ artist = "" /\ album = ""
    THEN << <<"title", NotPlaying>>, <<"artist", "">>, <<"album", "">> >>
    ELSE << <<"title", title>>, <<"artist", artist>>, <<"album", album>> >>

ShowArt == <<"art", "show">>
ClearArt == <<"art", "clear">>

----------------------------------------------------------------------------
(* The fit computation of update_album_art *)

\* the sides an image can have, and the sizes winfo_width and winfo_height
\* can report (0 and 1 before the window is laid out).  On these values
\* Python's float arithmetic and int() give the floor of the exact quotient.
SourceSides == (1..MaxSide) \cup {801, 1080, 1920}
ReportedSides == (0..MaxSide) \cup {200, 400, 401, 800}

Max(a, b) == IF a >= b THEN a ELSE b

\* packaged copy: art_size = window_height, the longer side takes it
Fit(width, height, art_size) ==
    IF width > height
    THEN <<art_size, (height * art_size) \div width>>
    ELSE <<(width * art_size) \div height, art_size>>

\* older copy: winfo_...() or 800
FallbackSide == 800
\* older copy: max(400, available_...)
MinSide == 400

Available_v0(reported) ==
    Max(MinSide, IF reported = 0 THEN FallbackSide ELSE reported)

\* older copy: ratio = min(width_ratio, height_ratio), both sides scaled
Fit_v0(width, height, label_width, label_height) ==
    LET available_width == Available_v0(label_width)
        available_height == Available_v0(label_height)
    IN IF available_width * height <= available_height * width
       THEN <<available_width, (height * available_width) \div width>>
       ELSE <<(width * available_height) \div height, available_height>>

NoSize == <<0, 0>>

InitFit ==
    /\ fpc = "idle"
    /\ img_size = <<1, 1>>
    /\ winfo = [window_height |-> 1, label_width |-> 1, label_height |-> 1]
    /\ new_size = NoSize
    /\ new_size_v0 = NoSize

----------------------------------------------------------------------------
(* run_monitoring_loop: one poll cycle, step by step *)

NewCycle ==
    [prev |-> previous_track, polled |-> "no", result |-> Absent,
     event |-> "none", song_info |-> <<>>, download |-> 0, art_request |-> 0,
     art_path |-> NoPath, update_art |-> 0, clear_art |-> 0, raised |-> FALSE]

\* the event were every Track logged as newly started
EventTypeStartedOnly(previous, now) ==
    IF IsTrack(now) THEN "now_playing_started"
    ELSE IF IsTrack(previous) THEN "now_playing_stopped"
    ELSE "none"

\* the event logged for a detected change (lines 276-278, 297-304)
EventType(previous, now) ==
    IF IsTrack(now)
    THEN IF ~IsTrack(previous) THEN "now_playing_started"
         ELSE "now_playing_changed"
    ELSE IF IsTrack(previous) THEN "now_playing_stopped"
    ELSE "none"

\* a handler sleeping one interval only
BackoffSleepOnce(interval) == interval

\* time.sleep(args.interval * 2) of the except branch
BackoffSleep(interval) == interval * 2

\* no handler: the exception leaves run_monitoring_loop
Uncaught(c) ==
    /\ mpc' = "done"
    /\ cycle' = [c EXCEPT !.raised = TRUE]

\* except Exception: logger.exception(...), the cycle c ends in the handler
Caught(c) ==
    /\ mpc' = "backoff"
    /\ cycle' = [c EXCEPT !.raised = TRUE]

\* while True: a loop that never reads the flag
MonitorWhileTrue ==
    /\ mpc = "while"
    /\ Len(hist) < MaxCycles
    /\ mpc' = "poll"
    /\ UNCHANGED <<previous_track, now_playing_track, args, pending, cycle, slept, hist>>
    /\ UNCHANGED <<client_vars, fit_vars, close_vars, render_vars, gui_vars, file>>

\* while display.running:
MonitorWhile ==
    /\ mpc = "while"
    /\ Len(hist) < MaxCycles
    /\ mpc' = IF running THEN "poll" ELSE "done"
    /\ UNCHANGED <<previous_track, now_playing_track, args, pending, cycle, slept, hist>>
    /\ UNCHANGED <<client_vars, fit_vars, close_vars, render_vars, gui_vars, file>>

\* now_playing_track = client.get_now_playing()
MonitorPoll(responses) ==
    /\ mpc = "poll"
    /\ \E r \in responses :
          LET res == get_now_playing(r)
          IN IF Raised(res)
             THEN /\ Caught([NewCycle EXCEPT !.polled = "raise"])
                  /\ UNCHANGED now_playing_track
             ELSE /\ mpc' = "compare"
                  /\ cycle' = [NewCycle EXCEPT !.polled = "return", !.result = res.val]
                  /\ now_playing_track' = res.val
    /\ slept' = 0
    /\ UNCHANGED <<previous_track, args, pending, hist>>
    /\ UNCHANGED <<client_vars, fit_vars, close_vars, render_vars, gui_vars, file>>

\* if now_playing_track != previous_track: ... and the event it logs
MonitorCompare ==
    /\ mpc = "compare"
    /\ IF TrackEq(now_playing_track, previous_track)
       THEN /\ mpc' = "sleep"
            /\ UNCHANGED cycle
       ELSE /\ mpc' = IF IsTrack(now_playing_track) THEN "song_info"
                      ELSE IF IsTrack(previous_track) THEN "stop_info"
                      ELSE "commit"
            /\ cycle' = [cycle EXCEPT
                            !.event = EventType(previous_track, now_playing_track)]
    /\ UNCHANGED <<previous_track, now_playing_track, args, pending, slept, hist>>
    /\ UNCHANGED <<client_vars, fit_vars, close_vars, render_vars, gui_vars, file>>

\* display.update_song_info(...) of either branch: the running test, then
\* the callbacks to schedule one root.after at a time
MonitorSongInfo ==
    /\ mpc \in {"song_info", "stop_info"}
    /\ LET shown == IF mpc = "song_info"
                    THEN <<now_playing_track.name, now_playing_track.artist,
                           now_playing_track.album>>
                    ELSE <<"", "", "">>
       IN /\ cycle' = [cycle EXCEPT !.song_info = Append(@, shown)]
          /\ IF running
             THEN /\ pending' = SongInfoCallbacks(shown[1], shown[2], shown[3])
                  /\ mpc' = IF mpc = "song_info" THEN "song_info_after"
                            ELSE "stop_info_after"
             ELSE /\ pending' = <<>>
                  /\ mpc' = IF mpc = "song_info" THEN "art_gate" ELSE "clear_art"
    /\ UNCHANGED <<previous_track, now_playing_track, args, slept, hist>>
    /\ UNCHANGED <<client_vars, fit_vars, close_vars, render_vars, gui_vars, file>>

\* one self.root.after(0, ...) of update_song_info
MonitorSongInfoAfter ==
    /\ mpc \in {"song_info_after", "stop_info_after"}
    /\ \/ /\ CanSchedule
          /\ afterq' = Append(afterq, Head(pending))
          /\ pending' = Tail(pending)
          /\ mpc' = IF Len(pending) > 1 THEN mpc
                    ELSE IF mpc = "song_info_after" THEN "art_gate"
                    ELSE "clear_art"
          /\ UNCHANGED cycle
       \/ /\ ~Dispatching
          /\ pending' = <<>>
          /\ Caught(cycle)
          /\ UNCHANGED afterq
    /\ UNCHANGED <<previous_track, now_playing_track, args, slept, hist>>
    /\ UNCHANGED <<client_vars, fit_vars, close_vars, render_vars, gpc, running, resize_timers, file>>

\* a gate that does not read args.no_art
MonitorArtGateAlways ==
    /\ mpc = "art_gate"
    /\ mpc' = IF now_playing_track.art_url # Missing THEN "download" ELSE "commit"
    /\ UNCHANGED <<previous_track, now_playing_track, args, pending, cycle, slept, hist>>
    /\ UNCHANGED <<client_vars, fit_vars, close_vars, render_vars, gui_vars, file>>

\* if not args.no_art and now_playing_track.art_url:
MonitorArtGate ==
    /\ mpc = "art_gate"
    /\ mpc' = IF ~args.no_art /\ now_playing_track.art_url # Missing
              THEN "download" ELSE "commit"
    /\ UNCHANGED <<previous_track, now_playing_track, args, pending, cycle, slept, hist>>
    /\ UNCHANGED <<client_vars, fit_vars, close_vars, render_vars, gui_vars, file>>

\* what the request, the stream, the open or a write of download_album_art
\* can raise: requests' exceptions and the operating system's
DownloadFailures == {"RequestException", "OSError"}

\* a handler for the request's errors only
DownloadCaughtRequestOnly == {"RequestException"}

\* except requests.exceptions.RequestException / except OSError
DownloadCaught == {"RequestException", "OSError"}

\* download_album_art fails in cycle c: return None from a handler, or the
\* exception leaves the call and reaches the handler of the loop
DownloadFails(c) ==
    \E exc \in DownloadFailures :
        IF exc \in DownloadCaught
        THEN mpc' = "commit" /\ cycle' = [c EXCEPT !.art_path = NoPath]
        ELSE Caught(c)

\* art_path = client.download_album_art(now_playing_track, image_filename)
\* up to the open of the file: no Track or no art_url returns None at once;
\* else the request is made and it fails (RequestException), or the open
\* fails (OSError), or the file is created empty
MonitorDownloadOpen ==
    /\ mpc = "download"
    /\ LET called == [cycle EXCEPT !.download = @ + 1]
           requested == [called EXCEPT !.art_request = @ + 1]
       IN IF ~IsTrack(now_playing_track) \/ now_playing_track.art_url = Missing
          THEN /\ mpc' = "commit"
               /\ cycle' = [called EXCEPT !.art_path = NoPath]
               /\ UNCHANGED file
          ELSE \/ /\ mpc' = "writing"
                  /\ cycle' = requested
                  /\ file' = "partial"
               \/ /\ DownloadFails(requested)
                  /\ UNCHANGED file
    /\ UNCHANGED <<previous_track, now_playing_track, args, pending, slept, hist>>
    /\ UNCHANGED <<client_vars, fit_vars, close_vars, render_vars, gui_vars>>

\* the chunk loop of download_album_art: all chunks written, the file closed
\* and the filename returned (if art_path: is then true), or the stream or a
\* write fails and what was written stays.  A file unlinked meanwhile stays
\* unlinked: the handle writes to no path.
MonitorDownloadWrite ==
    /\ mpc = "writing"
    /\ \/ /\ mpc' = "update_art"
          /\ cycle' = [cycle EXCEPT !.art_path = ArtPath]
          /\ file' = IF file = "absent" THEN "absent" ELSE "complete"
       \/ /\ DownloadFails(cycle)
          /\ UNCHANGED file
    /\ UNCHANGED <<previous_track, now_playing_track, args, pending, slept, hist>>
    /\ UNCHANGED <<client_vars, fit_vars, close_vars, render_vars, gui_vars>>

\* display.update_album_art(art_path) on the monitoring thread: the guard
\* if not self.running or not Path(image_path).exists(): return
MonitorUpdateArt ==
    /\ mpc = "update_art"
    /\ cycle' = [cycle EXCEPT !.update_art = @ + 1]
    /\ mpc' = IF ~running \/ file = "absent" THEN "commit" ELSE "store_path"
    /\ UNCHANGED <<previous_track, now_playing_track, args, pending, slept, hist>>
    /\ UNCHANGED <<client_vars, fit_vars, close_vars, render_vars, gui_vars, file>>

\* self.current_image_path = image_path, the statement after the guard
MonitorStorePath ==
    /\ mpc = "store_path"
    /\ current_image_path' = ArtPath
    /\ mpc' = "render_art"
    /\ UNCHANGED <<previous_track, now_playing_track, args, pending, cycle, slept, hist>>
    /\ UNCHANGED <<client_vars, fit_vars, close_vars, title_label, artist_label, album_label,
                   art_label, current_image, gui_vars, file>>

\* the try block of update_album_art on the monitoring thread: decode, ask
\* the window its height, build the PhotoImage, keep it, schedule the label
\* update.  Any exception (file gone, Tk not dispatching) is logged there.
MonitorRenderArt ==
    /\ mpc = "render_art"
    /\ \/ /\ file = "complete" /\ CanSchedule
          /\ current_image' = FreshImage
          /\ afterq' = Append(afterq, ShowArt)
       \/ /\ file # "complete" \/ ~Dispatching
          /\ UNCHANGED <<current_image, afterq>>
    /\ mpc' = "commit"
    /\ UNCHANGED <<previous_track, now_playing_track, args, pending, cycle, slept, hist>>
    /\ UNCHANGED <<client_vars, fit_vars, close_vars, title_label, artist_label, album_label, art_label,
                   current_image_path, gpc, running, resize_timers, file>>

\* display.clear_album_art()
MonitorClearArt ==
    /\ mpc = "clear_art"
    /\ IF ~running
       THEN /\ mpc' = "commit"
            /\ cycle' = [cycle EXCEPT !.clear_art = @ + 1]
            /\ UNCHANGED <<current_image, afterq>>
       ELSE /\ current_image' = NoImage
            /\ \/ /\ CanSchedule
                  /\ afterq' = Append(afterq, ClearArt)
                  /\ mpc' = "commit"
                  /\ cycle' = [cycle EXCEPT !.clear_art = @ + 1]
               \/ /\ ~Dispatching
                  /\ Caught([cycle EXCEPT !.clear_art = @ + 1])
                  /\ UNCHANGED afterq
    /\ UNCHANGED <<previous_track, now_playing_track, args, pending, slept, hist>>
    /\ UNCHANGED <<client_vars, fit_vars, close_vars, title_label, artist_label, album_label, art_label,
                   current_image_path, gpc, running, resize_timers, file>>

\* a cycle that forgets the assignment
MonitorCommitSkipped ==
    /\ mpc = "commit"
    /\ mpc' = "sleep"
    /\ UNCHANGED <<previous_track, now_playing_track, args, pending, cycle, slept, hist>>
    /\ UNCHANGED <<client_vars, fit_vars, close_vars, render_vars, gui_vars, file>>

\* previous_track = now_playing_track
MonitorCommit ==
    /\ mpc = "commit"
    /\ previous_track' = now_playing_track
    /\ mpc' = "sleep"
    /\ UNCHANGED <<now_playing_track, args, pending, cycle, slept, hist>>
    /\ UNCHANGED <<client_vars, fit_vars, close_vars, render_vars, gui_vars, file>>

\* except Exception: ... time.sleep(args.interval * 2)
MonitorBackoff ==
    /\ mpc = "backoff"
    /\ slept' = slept + BackoffSleep(args.interval)
    /\ mpc' = "sleep"
    /\ UNCHANGED <<previous_track, now_playing_track, args, pending, cycle, hist>>
    /\ UNCHANGED <<client_vars, fit_vars, close_vars, render_vars, gui_vars, file>>

\* a closing sleep twice as long
MonitorSleepTwice(recorded) ==
    /\ mpc = "sleep"
    /\ slept' = slept + 2 * args.interval
    /\ mpc' = "while"
    /\ hist' = IF recorded THEN Append(hist, cycle) ELSE hist
    /\ UNCHANGED <<previous_track, now_playing_track, args, pending, cycle>>
    /\ UNCHANGED <<client_vars, fit_vars, close_vars, render_vars, gui_vars, file>>

\* time.sleep(args.interval), the last statement of the loop body; a
\* recorded run keeps the finished cycle
MonitorSleep(recorded) ==
    /\ mpc = "sleep"
    /\ slept' = slept + args.interval
    /\ mpc' = "while"
    /\ hist' = IF recorded THEN Append(hist, cycle) ELSE hist
    /\ UNCHANGED <<previous_track, now_playing_track, args, pending, cycle>>
    /\ UNCHANGED <<client_vars, fit_vars, close_vars, render_vars, gui_vars, file>>

----------------------------------------------------------------------------
(* The main thread: display.start(), the Tk event loop, cleanup, exit *)

\* display.start() reaches root.mainloop(): Tk dispatches from now on
MainEnterMainloop ==
    /\ gpc = "starting"
    /\ gpc' = "mainloop"
    /\ UNCHANGED <<running, afterq, resize_timers>>
    /\ UNCHANGED <<client_vars, fit_vars, close_vars, loop_vars, render_vars, file>>

\* an event loop that runs the newest callback first
GuiCallbackNewest ==
    /\ gpc = "mainloop"
    /\ afterq # <<>>
    /\ LET cb == afterq[Len(afterq)]
       IN /\ title_label' = IF cb[1] = "title" THEN cb[2] ELSE title_label
          /\ artist_label' = IF cb[1] = "artist" THEN cb[2] ELSE artist_label
          /\ album_label' = IF cb[1] = "album" THEN cb[2] ELSE album_label
          /\ art_label' = IF cb = ClearArt THEN NoImage
                          ELSE IF cb = ShowArt /\ current_image # NoImage
                          THEN current_image
                          ELSE art_label
    /\ afterq' = SubSeq(afterq, 1, Len(afterq) - 1)
    /\ UNCHANGED <<current_image, current_image_path, gpc, running, resize_timers>>
    /\ UNCHANGED <<client_vars, fit_vars, close_vars, loop_vars, file>>

\* the event loop runs the oldest root.after(0, ...) callback
GuiCallback ==
    /\ gpc = "mainloop"
    /\ afterq # <<>>
    /\ LET cb == Head(afterq)
       IN /\ title_label' = IF cb[1] = "title" THEN cb[2] ELSE title_label
          /\ artist_label' = IF cb[1] = "artist" THEN cb[2] ELSE artist_label
          /\ album_label' = IF cb[1] = "album" THEN cb[2] ELSE album_label
          \* config(image=None) changes nothing: Tk drops None options
          /\ art_label' = IF cb = ClearArt THEN NoImage
                          ELSE IF cb = ShowArt /\ current_image # NoImage
                          THEN current_image
                          ELSE art_label
    /\ afterq' = Tail(afterq)
    /\ UNCHANGED <<current_image, current_image_path, gpc, running, resize_timers>>
    /\ UNCHANGED <<client_vars, fit_vars, close_vars, loop_vars, file>>

\* on_resize for a <Configure> event of the root window
on_resize ==
    /\ gpc = "mainloop"
    /\ resize_timers < MaxResize
    /\ resize_timers' = IF current_image_path # NoPath THEN resize_timers + 1
                        ELSE resize_timers
    /\ UNCHANGED <<gpc, running, afterq>>
    /\ UNCHANGED <<client_vars, fit_vars, close_vars, loop_vars, render_vars, file>>

\* the callback on_resize scheduled with root.after(100, ...):
\* update_album_art(self.current_image_path), whole, on the main thread
GuiResizeRender ==
    /\ gpc = "mainloop"
    /\ resize_timers > 0
    /\ resize_timers' = resize_timers - 1
    /\ IF running /\ file = "complete"
       THEN /\ Len(afterq) < MaxQueue
            /\ current_image' = FreshImage
            /\ afterq' = Append(afterq, ShowArt)
       ELSE UNCHANGED <<current_image, afterq>>
    /\ UNCHANGED <<title_label, artist_label, album_label, art_label,
                   current_image_path, gpc, running>>
    /\ UNCHANGED <<client_vars, fit_vars, close_vars, loop_vars, file>>

\* the window is closed: root.mainloop() returns, nothing scheduled runs
MainloopReturns ==
    /\ gpc = "mainloop"
    /\ gpc' = "returned"
    /\ root' = "destroyed"
    /\ afterq' = <<>>
    /\ resize_timers' = 0
    /\ UNCHANGED running
    /\ UNCHANGED <<client_vars, fit_vars, close_calls, close_raised, loop_vars, render_vars, file>>

\* self.running = False, the last statement of start()
MainStartReturns ==
    /\ gpc = "returned"
    /\ running' = FALSE
    /\ gpc' = "finally"
    /\ UNCHANGED <<afterq, resize_timers>>
    /\ UNCHANGED <<client_vars, fit_vars, close_vars, loop_vars, render_vars, file>>

\* KeyboardInterrupt inside display.start(): start() never sets the flag
MainInterrupted ==
    /\ gpc \in {"starting", "mainloop", "returned"}
    /\ gpc' = "finally"
    /\ afterq' = <<>>
    /\ resize_timers' = 0
    /\ UNCHANGED running
    /\ UNCHANGED <<client_vars, fit_vars, close_vars, loop_vars, render_vars, file>>

\* cleanup(album_art) in the finally block
cleanup ==
    /\ gpc = "finally"
    /\ file' = "absent"
    /\ gpc' = "exiting"
    /\ UNCHANGED <<running, afterq, resize_timers>>
    /\ UNCHANGED <<client_vars, fit_vars, close_vars, loop_vars, render_vars>>

\* TuneDisplayGUI.close(), called from a Tk callback or from the teardown
\* after start(): running = False, root.quit(), root.destroy().  quit() only
\* sets the flag that ends mainloop; destroy() on a root already destroyed
\* raises TclError.
close ==
    /\ gpc \in {"mainloop", "finally"}
    /\ close_calls < MaxCloses
    /\ close_calls' = close_calls + 1
    /\ running' = FALSE
    /\ IF root = "alive"
       THEN root' = "destroyed" /\ UNCHANGED close_raised
       ELSE close_raised' = TRUE /\ UNCHANGED root
    /\ IF gpc = "mainloop"
       THEN gpc' = "returned" /\ afterq' = <<>> /\ resize_timers' = 0
       ELSE UNCHANGED <<gpc, afterq, resize_timers>>
    /\ UNCHANGED <<client_vars, fit_vars, loop_vars, render_vars, file>>

\* sys.exit(0): the process ends and takes the daemon thread with it
MainExit ==
    /\ gpc = "exiting"
    /\ gpc' = "exited"
    /\ mpc' = IF mpc = "done" THEN "done" ELSE "killed"
    /\ UNCHANGED <<previous_track, now_playing_track, args, pending, cycle, slept, hist>>
    /\ UNCHANGED <<running, afterq, resize_timers>>
    /\ UNCHANGED <<client_vars, fit_vars, close_vars, render_vars, file>>

----------------------------------------------------------------------------
(* One call of get_now_playing on its own *)

ClientReturns ==
    /\ cpc = "called"
    /\ result' = get_now_playing(resp)
    /\ result_v0' = get_now_playing_v0(resp)
    /\ cpc' = "returned"
    /\ UNCHANGED resp
    /\ UNCHANGED <<loop_vars, render_vars, gui_vars, file, fit_vars, close_vars>>

----------------------------------------------------------------------------
(* Specifications *)

\* what the remote answers while the loop is watched: a transport failure,
\* a malformed body, an entry that is not playing, an invalid art URL, and
\* three tracks: A, A with another art URL, and B without art
LoopResponses ==
    {ShapeResp("conn_error", "empty", Missing, Missing, Str),
     ShapeResp("ok", "list", Missing, Missing, Str),
     EntryResp("false", "a1", "n1", "b1", <<>>),
     EntryResp("true", "a1", "n1", "b1", <<Img("extralarge", BadUrl)>>),
     EntryResp("true", "a1", "n1", "b1", <<Img("extralarge", U1)>>),
     EntryResp("true", "a1", "n1", "b1", <<Img("extralarge", U2)>>),
     EntryResp("true", "a1", "n2", "b1", <<>>)}

\* the default of --interval
DefaultInterval == 5

InitClient ==
    /\ cpc = "idle"
    /\ resp = ShapeResp("ok", "empty", Missing, Missing, Str)
    /\ result = Return(Absent)
    /\ result_v0 = Return(Absent)

InitLoop(intervals) ==
    /\ mpc = "while"
    /\ previous_track = Absent
    /\ now_playing_track = Absent
    /\ args \in [no_art : BOOLEAN, interval : intervals]
    /\ pending = <<>>
    /\ cycle = [prev |-> Absent, polled |-> "no", result |-> Absent,
                event |-> "none", song_info |-> <<>>, download |-> 0,
                art_request |-> 0, art_path |-> NoPath, update_art |-> 0,
                clear_art |-> 0, raised |-> FALSE]
    /\ slept = 0
    /\ hist = <<>>

\* TuneDisplayGUI.__init__, then run_monitoring_thread has started the thread
InitDisplay ==
    /\ gpc = "starting"
    /\ running = TRUE
    /\ afterq = <<>>
    /\ resize_timers = 0
    /\ title_label = ""
    /\ artist_label = ""
    /\ album_label = ""
    /\ art_label = NoImage
    /\ current_image = NoImage
    /\ current_image_path = NoPath
    /\ file \in {"absent", "complete"}
    /\ root = "alive"
    /\ close_calls = 0
    /\ close_raised = FALSE

Init == InitClient /\ InitLoop({DefaultInterval}) /\ InitDisplay /\ InitFit

Monitor(responses, recorded) ==
    \/ MonitorWhile
    \/ MonitorPoll(responses)
    \/ MonitorCompare
    \/ MonitorSongInfo
    \/ MonitorSongInfoAfter
    \/ MonitorArtGate
    \/ MonitorDownloadOpen
    \/ MonitorDownloadWrite
    \/ MonitorUpdateArt
    \/ MonitorStorePath
    \/ MonitorRenderArt
    \/ MonitorClearArt
    \/ MonitorCommit
    \/ MonitorBackoff
    \/ MonitorSleep(recorded)

Main ==
    \/ MainEnterMainloop
    \/ GuiCallback
    \/ on_resize
    \/ GuiResizeRender
    \/ MainloopReturns
    \/ MainStartReturns
    \/ MainInterrupted
    \/ cleanup
    \/ MainExit

\* the whole program: both threads, any interleaving
Next == Monitor(LoopResponses, FALSE) \/ Main

Spec == Init /\ [][Next]_vars

\* the whole program, each thread scheduled again and again while it has a
\* step to take: client calls return, sleeps end, the main thread goes on
SpecFair ==
    /\ Init
    /\ [][Next]_vars
    /\ WF_vars(Monitor(LoopResponses, FALSE))
    /\ WF_vars(Main)

\* the whole program with a teardown path that calls close()
NextTeardown == Next \/ close

SpecTeardown == Init /\ [][NextTeardown]_vars

\* get_now_playing applied to every remote outcome
InitClientCall ==
    /\ cpc = "called"
    /\ resp \in Responses
    /\ result = Return(Absent)
    /\ result_v0 = Return(Absent)
    /\ InitLoop({DefaultInterval})
    /\ InitDisplay
    /\ InitFit

SpecClient == InitClientCall /\ [][ClientReturns]_vars

\* the fit computation applied to every image size and reported widget size
FitComputes ==
    /\ fpc = "called"
    /\ new_size' = Fit(img_size[1], img_size[2], winfo.window_height)
    /\ new_size_v0' = Fit_v0(img_size[1], img_size[2], winfo.label_width,
                              winfo.label_height)
    /\ fpc' = "returned"
    /\ UNCHANGED <<img_size, winfo>>
    /\ UNCHANGED <<client_vars, loop_vars, render_vars, gui_vars, file, close_vars>>

InitFitCall ==
    /\ InitClient
    /\ InitLoop({DefaultInterval})
    /\ InitDisplay
    /\ fpc = "called"
    /\ img_size \in SourceSides \X SourceSides
    /\ winfo \in [window_height : ReportedSides, label_width : ReportedSides,
                   label_height : ReportedSides]
    /\ new_size = NoSize
    /\ new_size_v0 = NoSize

SpecFit == InitFitCall /\ [][FitComputes]_vars

\* every Track the packaged client can return
Tracks ==
    {res.val : res \in {x \in {get_now_playing(r) : r \in Responses} :
                           Returned(x) /\ IsTrack(x.val)}}

\* the change test of the loop applied to every pair of poll results
InitCompare ==
    /\ InitClient
    /\ InitFit
    /\ InitDisplay
    /\ mpc = "compare"
    /\ previous_track \in Tracks \cup {Absent}
    /\ now_playing_track \in Tracks \cup {Absent}
    /\ args = [no_art |-> FALSE, interval |-> DefaultInterval]
    /\ pending = <<>>
    /\ cycle = [NewCycle EXCEPT !.polled = "return", !.result = now_playing_track]
    /\ slept = 0
    /\ hist = <<>>

SpecCompare == InitCompare /\ [][MonitorCompare]_vars

\* download_album_art called on its own with every Track, with none, and
\* with the destination file in every state
InitDownload ==
    /\ InitClient
    /\ InitFit
    /\ InitDisplay
    /\ mpc = "download"
    /\ previous_track = Absent
    /\ now_playing_track \in Tracks \cup {Absent}
    /\ args \in [no_art : BOOLEAN, interval : {DefaultInterval}]
    /\ pending = <<>>
    /\ cycle = [NewCycle EXCEPT !.polled = "return", !.result = now_playing_track]
    /\ slept = 0
    /\ hist = <<>>

NextDownload == MonitorDownloadOpen \/ MonitorDownloadWrite

SpecDownload == InitDownload /\ [][NextDownload]_vars

\* what the remote answers in a recorded run: nothing playing, an invalid
\* art URL, track A with art, track B without
RecordedResponses ==
    {ShapeResp("conn_error", "empty", Missing, Missing, Str),
     EntryResp("true", "a1", "n1", "b1", <<Img("extralarge", BadUrl)>>),
     EntryResp("true", "a1", "n1", "b1", <<Img("extralarge", U1)>>),
     EntryResp("true", "a1", "n2", "b1", <<>>)}

\* the window is up: the main thread is inside root.mainloop()
InitRecorded ==
    /\ InitClient
    /\ InitFit
    /\ InitLoop(1..MaxInterval)
    /\ gpc = "mainloop"
    /\ running = TRUE
    /\ afterq = <<>>
    /\ resize_timers = 0
    /\ title_label = ""
    /\ artist_label = ""
    /\ album_label = ""
    /\ art_label = NoImage
    /\ current_image = NoImage
    /\ current_image_path = NoPath
    /\ file = "absent"
    /\ root = "alive"
    /\ close_calls = 0
    /\ close_raised = FALSE

\* the monitoring loop with its poll cycles recorded, while the window is up
NextRecorded == Monitor(RecordedResponses, TRUE) \/ GuiCallback

SpecRecorded == InitRecorded /\ [][NextRecorded]_vars

\* what the remote answers when only the art of one song varies: nothing
\* playing, an invalid art URL, track A with one art URL and with another
ArtResponses ==
    {ShapeResp("conn_error", "empty", Missing, Missing, Str),
     EntryResp("true", "a1", "n1", "b1", <<Img("extralarge", BadUrl)>>),
     EntryResp("true", "a1", "n1", "b1", <<Img("extralarge", U1)>>),
     EntryResp("true", "a1", "n1", "b1", <<Img("extralarge", U2)>>)}

InitArtChange ==
    /\ InitClient
    /\ InitFit
    /\ InitLoop({DefaultInterval})
    /\ gpc = "mainloop"
    /\ running = TRUE
    /\ afterq = <<>>
    /\ resize_timers = 0
    /\ title_label = ""
    /\ artist_label = ""
    /\ album_label = ""
    /\ art_label = NoImage
    /\ current_image = NoImage
    /\ current_image_path = NoPath
    /\ file = "absent"
    /\ root = "alive"
    /\ close_calls = 0
    /\ close_raised = FALSE

\* recorded runs of the loop, the window up, the remote varying the art
NextArtChange == Monitor(ArtResponses, TRUE) \/ GuiCallback

SpecArtChange == InitArtChange /\ [][NextArtChange]_vars

\* the program from its start, the poll cycles recorded: the thread is
\* started before display.start() and may poll before the main thread is in
\* mainloop
InitStartup ==
    /\ InitClient
    /\ InitFit
    /\ InitLoop({DefaultInterval})
    /\ InitDisplay

NextStartup == Monitor(RecordedResponses, TRUE) \/ MainEnterMainloop \/ GuiCallback

SpecStartup == InitStartup /\ [][NextStartup]_vars

----------------------------------------------------------------------------
(* Properties of the monitoring loop, checked on recorded runs (SpecRecorded) *)

TrackA == Track("a1", "n1", "b1", U1)
TrackB == Track("a1", "n2", "b1", Missing)

\* the event of a finished cycle, as a function of the previous_track it
\* started with and of what the poll returned
EventAsClaimed(c) ==
    LET polled == c.polled = "return"
    IN /\ c.event = "now_playing_started"
            <=> (polled /\ ~IsTrack(c.prev) /\ IsTrack(c.result))
       /\ c.event = "now_playing_changed"
            <=> (polled /\ IsTrack(c.prev) /\ IsTrack(c.result) /\ c.result # c.prev)
       /\ c.event = "now_playing_stopped"
            <=> (polled /\ IsTrack(c.prev) /\ ~IsTrack(c.result))
       /\ c.event \in {"now_playing_started", "now_playing_changed",
                       "now_playing_stopped", "none"}

EventRule == \A i \in 1..Len(hist) : EventAsClaimed(hist[i])

\* the first five polls returned A, A, B, absent, absent
FedSequence ==
    /\ Len(hist) >= 5
    /\ \A i \in 1..5 : hist[i].polled = "return"
    /\ <<hist[1].result, hist[2].result, hist[3].result, hist[4].result,
         hist[5].result>> = <<TrackA, TrackA, TrackB, Absent, Absent>>

SequenceEvents ==
    <<hist[1].event, hist[2].event, hist[3].event, hist[4].event, hist[5].event>>
        = <<"now_playing_started", "none", "now_playing_changed",
            "now_playing_stopped", "none">>

SameTrackTwice(i) ==
    /\ i + 1 <= Len(hist)
    /\ hist[i].polled = "return" /\ hist[i + 1].polled = "return"
    /\ IsTrack(hist[i].result)
    /\ hist[i + 1].result = hist[i].result
    /\ hist[i].prev # hist[i].result

\* cycles i and i+1 together: one event, one update_song_info, for the Track
OneEventOneUpdate(i) ==
    LET T == hist[i].result
    IN /\ Cardinality({j \in {i, i + 1} : hist[j].event # "none"}) = 1
       /\ hist[i].song_info \o hist[i + 1].song_info
              = << <<T.name, T.artist, T.album>> >>

\* a cycle whose poll returned the Track already held did nothing
NoOpCycle(c) ==
    (c.polled = "return" /\ IsTrack(c.result) /\ c.result = c.prev)
        => /\ c.event = "none"
           /\ c.song_info = <<>>
           /\ c.download = 0 /\ c.update_art = 0 /\ c.clear_art = 0

NoOpCycles == NoOpCycle(cycle) /\ \A i \in 1..Len(hist) : NoOpCycle(hist[i])

C3_BackoffAsClaimed ==
    (mpc = "poll" /\ cycle.raised) => slept = 2 * args.interval

\* C3, amended: after a cycle that raised, the handler has slept twice the
\* interval and the loop's closing sleep one more: three intervals in all
\* when the next poll starts.
C3_Backoff ==
    /\ (mpc = "sleep" /\ cycle.raised) => slept = 2 * args.interval
    /\ (mpc = "poll" /\ cycle.raised) => slept = 3 * args.interval

C3_Witness == mpc = "poll" /\ cycle.raised /\ args.interval = 2

TrackA2 == Track("a1", "n1", "b1", U2)

\* the poll of cycle c returned the held Track's artist, name and album with
\* another art_url
ArtOnlyChange(c) ==
    /\ c.polled = "return"
    /\ IsTrack(c.prev) /\ IsTrack(c.result)
    /\ \A f \in TrackFieldsNoArt : c.result[f] = c.prev[f]
    /\ c.result.art_url # c.prev.art_url

\* previous_track as cycle i left it: what the next cycle started with, or
\* the variable itself while no later poll has been made
HeldAfter(i) ==
    IF i < Len(hist) THEN hist[i + 1].prev
    ELSE IF cycle = hist[i] THEN previous_track
    ELSE cycle.prev

\* C11: a poll returning the held Track's artist, name and album with a
\* different art_url is a change: 'now_playing_changed' is emitted,
\* update_song_info is called again, an art download is attempted when art
\* is enabled and the URL is present, and previous_track becomes the new
\* Track.
C11_ArtChange ==
    \A i \in 1..Len(hist) :
        ArtOnlyChange(hist[i])
            => /\ hist[i].event = "now_playing_changed"
               /\ hist[i].song_info
                      = << <<hist[i].result.name, hist[i].result.artist,
                             hist[i].result.album>> >>
               /\ (~args.no_art /\ hist[i].result.art_url # Missing)
                      => hist[i].download = 1
               /\ HeldAfter(i) = hist[i].result

C11_Witness ==
    /\ Len(hist) >= 2
    /\ hist[2].prev = TrackA /\ hist[2].result = TrackA2
    /\ hist[2].download = 1
    /\ previous_track = TrackA2

\* the poll of cycle c returned absent while a Track was held
StopCycle(c) ==
    c.polled = "return" /\ IsTrack(c.prev) /\ ~IsTrack(c.result)

\* the poll of cycle c returned absent while nothing was held
IdleCycle(c) ==
    c.polled = "return" /\ ~IsTrack(c.prev) /\ ~IsTrack(c.result)

\* C17: a poll returning absent while a Track is held emits
\* 'now_playing_stopped', calls update_song_info with all fields empty (the
\* title becomes the placeholder, artist and album empty), calls
\* clear_album_art and sets previous_track to absent; a further absent poll
\* issues no event and no display call.
C17_Stop ==
    /\ \A i \in 1..Len(hist) :
          /\ StopCycle(hist[i])
                => /\ hist[i].event = "now_playing_stopped"
                   /\ hist[i].song_info = << <<"", "", "">> >>
                   /\ hist[i].clear_art = 1
                   /\ HeldAfter(i) = Absent
          /\ IdleCycle(hist[i])
                => /\ hist[i].event = "none"
                   /\ hist[i].song_info = <<>>
                   /\ hist[i].clear_art = 0
                   /\ hist[i].download = 0 /\ hist[i].update_art = 0
    /\ (StopCycle(cycle) /\ mpc \in {"sleep", "while", "poll"} /\ afterq = <<>>)
          => /\ title_label = NotPlaying
             /\ artist_label = "" /\ album_label = ""

C17_Witness ==
    /\ Len(hist) >= 3
    /\ hist[1].result = TrackA
    /\ StopCycle(hist[2]) /\ IdleCycle(hist[3])
    /\ cycle = hist[3]
    /\ title_label = NotPlaying /\ art_label = NoImage

----------------------------------------------------------------------------
(* Properties of the whole program (Spec) *)

\* C4: the loop ends only by reading display.running as false at the top of
\* an iteration; whatever a cycle returns or raises, the loop goes on to its
\* sleep and the next test of the flag.
C4_OnlyExit ==
    [][(mpc # "done" /\ mpc' = "done") => (mpc = "while" /\ ~running)]_vars

\* a cycle raised with the flag still set, and the loop came round to poll
C4_Witness == mpc = "poll" /\ cycle.raised /\ running

\* C6: once display.start() has returned, cleanup has run and the process
\* has exited, the transient art file is not on disk, in every interleaving
\* with the monitoring thread.
C6_FileGone == (gpc = "exited" /\ ~running) => file = "absent"

\* C16: resize events arriving while a re-render is already scheduled add
\* none: at most one re-render (one update_album_art run) is pending at any
\* time, so a burst of events causes one re-render.
C16_OneRerender == resize_timers <= 1

\* a step of update_album_art on the monitoring thread
UpdateArtStep ==
    mpc \in {"update_art", "store_path", "render_art"} /\ mpc' # mpc /\ mpc' # "killed"

\* C18: update_album_art does nothing while the art file does not exist or
\* the surface is no longer running: none of its steps changes
\* current_image, current_image_path or the art label or schedules a
\* callback, in every interleaving with the shutdown of the surface.
C18_NoOp ==
    [][(UpdateArtStep /\ (~running \/ file = "absent"))
          => UNCHANGED <<current_image, current_image_path, art_label, afterq>>]_vars

\* C7: the render state is written only on the rendering loop: no step of
\* the monitoring thread changes a label, current_image or
\* current_image_path.
C7_OnlyGuiWrites == [][UNCHANGED render_vars \/ UNCHANGED loop_vars]_vars

\* C8: the image the art label shows is empty or the one current_image
\* retains, in every reachable state.
C8_LabelRetained == art_label = NoImage \/ art_label = current_image

\* C19: close() is idempotent: a second call, or a call after the window
\* was destroyed when start() returned, raises nothing and leaves running
\* false.
C19_CloseIdempotent == ~close_raised /\ (close_calls >= 1 => ~running)

\* the event loop of the surface has exited
LoopExited == gpc \notin {"starting", "mainloop"}

\* C20, as claimed: once the event loop has exited, running becomes false
\* and stays false and the monitoring loop observes it and exits.
C20_ObservedAsClaimed == LoopExited ~> [](~running /\ mpc = "done")

\* C20, amended: running never goes back to true; the first while test made
\* with running false ends the loop, so at most the poll whose test had
\* already passed is still made; and once start() has returned with running
\* false the loop comes to an end, by that test or by the process exiting.
C20_Stops ==
    /\ [][~running => ~running']_vars
    /\ [][(mpc = "while" /\ mpc' # mpc /\ ~running)
              => mpc' \in {"done", "killed"}]_vars
    /\ (gpc = "finally" /\ ~running) ~> (mpc \in {"done", "killed"})

\* the loop read the flag as false and ended before the process exited
C20_Witness == mpc = "done" /\ ~running /\ gpc = "finally"

----------------------------------------------------------------------------
(* Properties of get_now_playing (SpecClient) *)

\* C5: get_now_playing raises for no remote outcome; it returns, absent or
\* a Track.
C5_NeverRaises == cpc = "returned" => Returned(result)

NonEmptyTrack(r) ==
    (Returned(r) /\ IsTrack(r.val))
        => Truthy(r.val.artist) /\ Truthy(r.val.name) /\ Truthy(r.val.album)

\* C9: every Track get_now_playing returns, in either copy of the client,
\* has non-empty artist, name and album.
C9_NonEmpty ==
    cpc = "returned" => NonEmptyTrack(result) /\ NonEmptyTrack(result_v0)

\* the response carries a latest entry that is an object
HasEntry(r) ==
    /\ r.transport = "ok" /\ r.body = "dict" /\ r.recenttracks = "dict"
    /\ r.track = "list" /\ r.entry = "dict"

\* C12: when the latest entry has no '@attr' with nowplaying == "true",
\* get_now_playing returns absent, whatever artist, name and album it
\* carries, in either copy of the client.
C12_NoMarkerAbsent ==
    (cpc = "returned" /\ HasEntry(resp) /\ resp.attr # "true")
        => result = Return(Absent) /\ result_v0 = Return(Absent)

\* every candidate of the list is an object with a size tag
Candidates(image_list) ==
    \A i \in 1..Len(image_list) : image_list[i].size # Str

\* the non-empty values of the candidates tagged 'extralarge'
ExtraLargeValues(image_list) ==
    {image_list[i].text : i \in {j \in 1..Len(image_list) :
        image_list[j].size = "extralarge" /\ Truthy(image_list[j].text)}}

\* art_url is what the selection policy allows for image_list: the value of
\* an 'extralarge' candidate that has one, else the value of the last
\* entry, else nothing
SelectedAsClaimed(image_list, art_url) ==
    IF ExtraLargeValues(image_list) # {}
    THEN \E u \in ExtraLargeValues(image_list) : art_url = HttpUrl(u)
    ELSE IF image_list # <<>> /\ Truthy(image_list[Len(image_list)].text)
    THEN art_url = HttpUrl(image_list[Len(image_list)].text)
    ELSE art_url = Missing

\* C13: the art URL of a returned Track is the one the selection policy
\* names for the entry's image list (the 'extralarge' candidate with a
\* value, else the last entry, else none), in both copies of the client.
C13_Selection ==
    (cpc = "returned" /\ Candidates(resp.image))
        => /\ (Returned(result) /\ IsTrack(result.val))
                 => SelectedAsClaimed(resp.image, result.val.art_url)
           /\ (Returned(result_v0) /\ IsTrack(result_v0.val))
                 => SelectedAsClaimed(resp.image, result_v0.val.art_url)

----------------------------------------------------------------------------
(* Properties of the fit computation (SpecFit) *)

\* <<w2, h2>> keeps the aspect ratio of <<w, h>> within integer flooring
AspectKept(w, h, w2, h2) ==
    LET d == w2 * h - h2 * w
    IN (IF d >= 0 THEN d ELSE 0 - d) < Max(w, h)

\* size fits into the region region_w by region_h and keeps the aspect ratio
FitsRegion(size, region_w, region_h) ==
    /\ size[1] <= region_w
    /\ size[2] <= region_h
    /\ AspectKept(img_size[1], img_size[2], size[1], size[2])

\* C14: the computed size never exceeds the region the widget reports and
\* keeps the aspect ratio within integer flooring: in the packaged copy the
\* region is the window's height on both axes, in the older copy the art
\* label's width and height.
C14_Fits ==
    fpc = "returned"
        => /\ FitsRegion(new_size, winfo.window_height, winfo.window_height)
           /\ (winfo.label_width >= 1 /\ winfo.label_height >= 1)
                  => FitsRegion(new_size_v0, winfo.label_width, winfo.label_height)

\* C15: both computed dimensions are at least 1 for every image size and
\* every reported widget size, in both copies.
C15_NonDegenerate ==
    fpc = "returned"
        => /\ new_size[1] >= 1 /\ new_size[2] >= 1
           /\ new_size_v0[1] >= 1 /\ new_size_v0[2] >= 1

----------------------------------------------------------------------------
(* Properties of the change test (SpecCompare) *)

\* C10: two Tracks compare equal iff artist, name, album and art_url are
\* all equal: the loop takes the no-change path for exactly those pairs.
C10_Equality ==
    (mpc # "compare" /\ IsTrack(previous_track) /\ IsTrack(now_playing_track))
        => ((mpc = "sleep")
               <=> /\ now_playing_track.artist = previous_track.artist
                   /\ now_playing_track.name = previous_track.name
                   /\ now_playing_track.album = previous_track.album
                   /\ now_playing_track.art_url = previous_track.art_url)

\* two Tracks alike but for art_url, present in one and absent in the other,
\* were found to differ
C10_Witness ==
    /\ mpc = "song_info"
    /\ IsTrack(previous_track) /\ IsTrack(now_playing_track)
    /\ \A f \in TrackFieldsNoArt : now_playing_track[f] = previous_track[f]
    /\ previous_track.art_url = Missing
    /\ now_playing_track.art_url # Missing

----------------------------------------------------------------------------
(* Properties of the art path of the loop and of the display (Spec) *)

\* what cycle c did about art is what the gate allows
ArtGated(c) ==
    /\ c.download <= 1
    /\ c.update_art <= c.download
    /\ c.download = 1
          => /\ c.polled = "return" /\ IsTrack(c.result)
             /\ c.result # c.prev
             /\ c.event \in {"now_playing_started", "now_playing_changed"}
             /\ ~args.no_art
             /\ c.result.art_url # Missing

\* C21: download_album_art is called at most once in a cycle, only in a
\* cycle that detected a new or changed Track with an art URL and only with
\* art enabled; update_album_art is called only on the step after a download
\* that wrote the whole image and returned its path; with --no-art no
\* download and no update_album_art happens in any run, from the loop or
\* from a resize.
C21_ArtGate ==
    /\ [](ArtGated(cycle))
    /\ [](args.no_art => /\ cycle.download = 0 /\ cycle.update_art = 0
                          /\ current_image_path = NoPath /\ resize_timers = 0)
    /\ [][(mpc' = "update_art" /\ mpc # "update_art")
              => /\ mpc = "writing" /\ cycle.download = 1
                 /\ file' # "partial" /\ cycle'.art_path = ArtPath]_vars
    /\ [][(cycle'.update_art # cycle.update_art /\ cycle'.update_art # 0)
              => mpc = "update_art"]_vars

\* a cycle downloaded the art of a new Track and went on to update_album_art
C21_Witness ==
    /\ mpc = "sleep" /\ ~args.no_art
    /\ cycle.download = 1 /\ cycle.update_art = 1
    /\ cycle.event = "now_playing_started"

----------------------------------------------------------------------------
(* Cadence of the polls (SpecRecorded) *)

\* the loop is about to poll again after a finished cycle
NextPollDue == mpc = "poll" /\ cycle.polled # "no"

\* C22: between two consecutive polls the loop has slept at least
\* args.interval seconds, and exactly args.interval when the cycle between
\* them raised nothing, a cycle whose poll returned absent after a transport
\* failure included.
C22_Cadence ==
    NextPollDue => /\ slept >= args.interval
                   /\ ~cycle.raised => slept = args.interval

\* the poll failed in transport, the client returned absent, and the loop
\* is back at its poll after one interval
C22_Witness ==
    /\ NextPollDue /\ ~cycle.raised
    /\ cycle.polled = "return" /\ ~IsTrack(cycle.result)
    /\ args.interval = MaxInterval /\ slept = MaxInterval

----------------------------------------------------------------------------
(* What the labels show (SpecRecorded) *)

\* the update_song_info commands of the first n recorded cycles, in order
RECURSIVE SongInfoIssued(_)
SongInfoIssued(n) ==
    IF n = 0 THEN <<>> ELSE SongInfoIssued(n - 1) \o hist[n].song_info

\* every update_song_info command issued so far, in issue order
Commands ==
    SongInfoIssued(Len(hist))
        \o (IF Len(hist) > 0 /\ cycle = hist[Len(hist)] THEN <<>>
            ELSE cycle.song_info)

\* no callback of update_song_info is waiting to be scheduled or to be run
LabelsSettled ==
    /\ pending = <<>>
    /\ \A i \in 1..Len(afterq) : afterq[i][1] \notin {"title", "artist", "album"}

\* the triple the surface is to show for a command
Displayed(cmd) ==
    IF cmd = <<"", "", "">> THEN <<NotPlaying, "", "">> ELSE cmd

\* C23: once the callbacks of the update_song_info commands issued so far
\* have run, the labels show the triple of the last command: the 'not
\* playing' placeholder with empty artist and album if its three arguments
\* were empty, the three arguments as given otherwise.
C23_LastCommand ==
    (LabelsSettled /\ Commands # <<>>)
        => <<title_label, artist_label, album_label>>
               = Displayed(Commands[Len(Commands)])

\* a Track was shown, then the stop command, then another Track, and the
\* labels show that Track
C23_Witness ==
    /\ LabelsSettled
    /\ Len(Commands) >= 3
    /\ Commands[Len(Commands) - 1] = <<"", "", "">>
    /\ Commands[Len(Commands)] = <<"n2", "a1", "b1">>
    /\ title_label = "n2"

----------------------------------------------------------------------------
(* Properties of download_album_art called on its own (SpecDownload) *)

\* the call of download_album_art has returned or raised
DownloadEnded == mpc \in {"commit", "update_art", "backoff"}

\* C24: called with no Track or a Track without art URL, download_album_art
\* returns absent, issues no request and leaves the destination file as it
\* was; a transport or filesystem error makes it return absent, never
\* raise; and it returns the destination path only when the whole image was
\* written.
C24_Download ==
    /\ [][(mpc = "download" /\ mpc' # mpc
             /\ (~IsTrack(now_playing_track) \/ now_playing_track.art_url = Missing))
              => /\ cycle'.art_request = 0
                 /\ cycle'.art_path = NoPath
                 /\ file' = file]_vars
    /\ [](~cycle.raised)
    /\ []((DownloadEnded /\ cycle.art_path = ArtPath) => file = "complete")
    /\ []((DownloadEnded /\ file = "partial" /\ cycle.art_request = 1)
              => cycle.art_path = NoPath)

\* the stream failed after the file was opened: absent, a partial file left
C24_Witness ==
    /\ mpc = "commit" /\ cycle.art_request = 1
    /\ cycle.art_path = NoPath /\ file = "partial"

----------------------------------------------------------------------------
(* The art region between tracks (Spec) *)

\* the loop has processed a stop on a surface that is up: clear_album_art
\* ran its branch, its callback has run, and no later poll has been made
StopProcessed ==
    /\ running /\ gpc = "mainloop"
    /\ cycle.event = "now_playing_stopped"
    /\ cycle.clear_art = 1 /\ ~cycle.raised
    /\ mpc \in {"commit", "sleep", "while", "poll"}
    /\ \A i \in 1..Len(afterq) : afterq[i] # ClearArt

\* C25: from the moment the loop has processed a Playing -> Idle transition
\* and the clearing callback has run, the art region is empty, whatever
\* resize events arrive and whatever re-render was scheduled before the
\* stop.
C25_StaysEmpty == StopProcessed => art_label = NoImage

----------------------------------------------------------------------------
(* Whose art is shown (SpecRecorded) *)

\* the loop has completed the cycle of a new or changed Track for which it
\* obtained no image (no art URL, art disabled or a failed download), and
\* every scheduled callback has run
NoArtForTrack ==
    /\ mpc \in {"sleep", "while", "poll"}
    /\ cycle.event \in {"now_playing_started", "now_playing_changed"}
    /\ ~cycle.raised
    /\ cycle.art_path = NoPath
    /\ pending = <<>> /\ afterq = <<>> /\ resize_timers = 0

\* C26: the art shown belongs to the Track shown: once the loop has
\* completed the cycle of a new or changed Track T and every scheduled
\* callback has run, the art label is empty or shows the image downloaded
\* for T; with no image obtained for T it is empty, never the art of an
\* earlier Track.
C26_ArtOfTrack == NoArtForTrack => art_label = NoImage

----------------------------------------------------------------------------
(* Readers and the writer of the art file (Spec) *)

\* the re-render scheduled by on_resize runs and passes the guard of
\* update_album_art: Image.open reads the file
ResizeReads ==
    /\ gpc = "mainloop" /\ gpc' = "mainloop"
    /\ resize_timers' = resize_timers - 1
    /\ running /\ file # "absent"

\* C27: the surface never reads the art file while download_album_art is
\* between opening it for writing and its last chunk, nor a partial file a
\* failed download left: every read by a resize re-render finds the file
\* complete.
C27_NoTornRead == [][ResizeReads => file = "complete"]_vars

----------------------------------------------------------------------------
(* Bookkeeping of previous_track (SpecStartup) *)

\* cycle i raised after its poll had returned, and the next poll returned
\* the same result
RetriedAt(i) ==
    /\ i + 1 <= Len(hist)
    /\ hist[i].raised /\ hist[i].polled = "return"
    /\ hist[i + 1].polled = "return"
    /\ hist[i + 1].result = hist[i].result

\* C28: after a cycle that raised nothing previous_track equals the
\* cycle's poll result; after a cycle that raised, in the poll or in a
\* display call, previous_track is what it was before the cycle, and a next
\* poll returning the same result detects the same transition: the same
\* event and the same display update are issued again.
C28_Bookkeeping ==
    \A i \in 1..Len(hist) :
        /\ (~hist[i].raised /\ hist[i].polled = "return")
              => HeldAfter(i) = hist[i].result
        /\ hist[i].raised => HeldAfter(i) = hist[i].prev
        /\ RetriedAt(i)
              => /\ hist[i + 1].prev = hist[i].prev
                 /\ hist[i + 1].event = hist[i].event
                 /\ hist[i + 1].song_info = hist[i].song_info

\* the first poll returned a Track before the window was up, the display
\* update raised, and the second poll returned the Track again: started is
\* logged twice and the cycle completed
C28_Witness ==
    /\ RetriedAt(1)
    /\ hist[1].event = "now_playing_started"
    /\ hist[2].event = "now_playing_started"
    /\ ~hist[2].raised
    /\ cycle = hist[2] /\ previous_track = hist[2].result

----------------------------------------------------------------------------
(* The labels and the detector's state (SpecRecorded) *)

\* the surface is up, at least one poll has completed, no poll cycle is in
\* progress and every scheduled callback has run
Quiet ==
    /\ running /\ gpc = "mainloop"
    /\ mpc \in {"sleep", "while"}
    /\ cycle.polled = "return"
    /\ pending = <<>> /\ afterq = <<>>

\* the triple the labels are to show while t is held
Mirrored(t) ==
    IF IsTrack(t) THEN <<t.name, t.artist, t.album>>
    ELSE <<NotPlaying, "", "">>

\* C29: whenever the surface is running, no poll cycle is in progress and
\* every scheduled callback has run, the labels show name, artist and album
\* of the Track held in previous_track, and the 'not playing' placeholder
\* with empty artist and album when nothing is held, from the first poll
\* on.
C29_Mirror ==
    Quiet => <<title_label, artist_label, album_label>> = Mirrored(previous_track)

====
